---------------------------- MODULE Spec2Model ----------------------------
(***************************************************************************)
(* sysalert (src/src/main.rs): one run of the host health check.  `main`   *)
(* loads the configuration, takes a snapshot of the host, optionally       *)
(* self-updates, runs the checks in a fixed order pushing one string per   *)
(* violated rule onto `errors`, and sends one Telegram message when        *)
(* `errors` is not empty.                                                  *)
(*                                                                         *)
(* Text is modelled as a sequence of string tokens, so that the quoting    *)
(* characters and the "\n" separators of the formatted messages are        *)
(* tokens a formula can look at.  SANY does not accept a backtick or a     *)
(* non-ASCII character inside a string, so the backtick is written "<bt>"  *)
(* and the emoji of the source are written "[!]", "[ok]" and "[siren]".    *)
(***************************************************************************)
EXTENDS Integers, Sequences, FiniteSets, TLC

VARIABLES pc, config_file, host, config, errors, origin, sent, exit_code

vars == <<pc, config_file, host, config, errors, origin, sent, exit_code>>

---------------------------------------------------------------------------
(* Bounds of the model.                                                    *)

\* logical CPUs of the modelled host (default load-average ceiling)
NumCpus == 4
\* longest disk list the host reports
MaxDisks == 2
\* most processes the host runs
MaxProcs == 2
\* largest "available" amount sampled for a disk or for memory, in units
MaxAvail == 2

---------------------------------------------------------------------------
(* f64 values.  A value is the exact quotient num/den of two naturals;     *)
(* den = 0 is a division by zero: 0/0 is NaN and n/0, n > 0, is +inf, as   *)
(* IEEE-754 division gives for `a as f64 / b as f64`.                      *)

F64(n, d) == [num |-> n, den |-> d]

FromInt(n) == F64(n, 1)

IsNaN(x) == x.den = 0 /\ x.num = 0

IsInf(x) == x.den = 0 /\ x.num > 0

\* x * k for a natural k
Times(x, k) == F64(x.num * k, x.den)

\* x < y on f64: false whenever an operand is NaN
Lt(x, y) ==
    IF IsNaN(x) \/ IsNaN(y) THEN FALSE
    ELSE IF IsInf(x) THEN FALSE
    ELSE IF IsInf(y) THEN TRUE
    ELSE x.num * y.den < y.num * x.den

\* x > y on f64
Gt(x, y) == Lt(y, x)

\* `(x as f64 * 0.75) as u64`: the product truncated towards zero
ThreeQuarters(n) == (n * 3) \div 4

---------------------------------------------------------------------------
(* Formatting.                                                             *)

Backtick == "<bt>"

NL == "\n"

Pad4(n) ==
    IF n < 10 THEN "000" \o ToString(n)
    ELSE IF n < 100 THEN "00" \o ToString(n)
    ELSE IF n < 1000 THEN "0" \o ToString(n)
    ELSE ToString(n)

\* "{:.4}" of an f64: four decimals, rounded to nearest
Fmt4(x) ==
    IF IsNaN(x) THEN "NaN"
    ELSE IF IsInf(x) THEN "inf"
    ELSE LET scaled == (2 * 10000 * x.num + x.den) \div (2 * x.den)
         IN  ToString(scaled \div 10000) \o "." \o Pad4(scaled % 10000)

RECURSIVE TrimZeros(_, _)
\* the decimals of frac (of `width` digits) without trailing zeros
TrimZeros(frac, width) ==
    IF width = 0 THEN ""
    ELSE IF frac % 10 = 0 THEN TrimZeros(frac \div 10, width - 1)
    ELSE IF width = 4 THEN Pad4(frac)
    ELSE IF width = 3 THEN (IF frac < 10 THEN "00" ELSE IF frac < 100 THEN "0" ELSE "")
                           \o ToString(frac)
    ELSE IF width = 2 THEN (IF frac < 10 THEN "0" ELSE "") \o ToString(frac)
    ELSE ToString(frac)

\* "{}" of an f64 with at most four decimals: the shortest text, "4" for 4.0
FmtDisplay(x) ==
    IF IsNaN(x) THEN "NaN"
    ELSE IF IsInf(x) THEN "inf"
    ELSE LET scaled == (10000 * x.num) \div x.den
             frac   == scaled % 10000
         IN  IF frac = 0 THEN ToString(scaled \div 10000)
             ELSE ToString(scaled \div 10000) \o "." \o TrimZeros(frac, 4)

RECURSIVE Join(_, _)
\* `lines.join(sep)`: the texts in order with sep between two of them
Join(texts, sep) ==
    IF texts = <<>> THEN <<>>
    ELSE IF Len(texts) = 1 THEN texts[1]
    ELSE texts[1] \o <<sep>> \o Join(Tail(texts), sep)

RECURSIVE JoinNames(_)
\* `names.join(", ")` as one token
JoinNames(names) ==
    IF names = <<>> THEN ""
    ELSE IF Len(names) = 1 THEN names[1]
    ELSE names[1] \o ", " \o JoinNames(Tail(names))

---------------------------------------------------------------------------
(* Names.  `processes_by_name(n)` and `name().contains("b2")` are          *)
(* substring tests, so a name is looked at as its sequence of characters.  *)

Chars(name) ==
    CASE name = "apache2"     -> <<"a", "p", "a", "c", "h", "e", "2">>
      [] name = "nginx"       -> <<"n", "g", "i", "n", "x">>
      [] name = "mariadbd"    -> <<"m", "a", "r", "i", "a", "d", "b", "d">>
      [] name = "mysqld"      -> <<"m", "y", "s", "q", "l", "d">>
      [] name = "mysqld_safe" -> <<"m", "y", "s", "q", "l", "d", "_", "s", "a", "f", "e">>
      [] name = "b2"          -> <<"b", "2">>
      [] OTHER                -> <<>>

\* `haystack.contains(needle)` on strings
StrContains(haystack, needle) ==
    LET h == Chars(haystack)
        n == Chars(needle)
    IN  \E i \in 0..(Len(h) - Len(n)) : SubSeq(h, i + 1, i + Len(n)) = n

\* `vec.contains(&x)`
VecContains(vec, x) == \E i \in 1..Len(vec) : vec[i] = x

\* the processes of `s.processes_by_name(name)`, in the map's iteration order
processes_by_name(procs, name) ==
    SelectSeq(procs, LAMBDA p : StrContains(p.name, name))

---------------------------------------------------------------------------
(* Configuration.  An Option is <<>> (absent) or <<v>> (present).          *)

None == <<>>

Some(v) == <<v>>

\* `default_load_average`: the number of logical CPUs
default_load_average(cpus) == FromInt(cpus)

\* `default_disks`
default_disks == <<"/">>

\* `default_disks_minimum`: 0.05
default_disks_minimum == F64(1, 20)

\* `default_memory_minimum`: 0.05
default_memory_minimum == F64(1, 20)

OrDefault(opt, dflt) == IF opt = None THEN dflt ELSE opt[1]

\* The Config that serde builds from a document that parsed.
Deserialize(doc, cpus) ==
    [ disable_self_update |-> doc.disable_self_update,
      memory |-> [minimum |-> OrDefault(doc.memory_minimum, default_memory_minimum)],
      disks |-> [disks   |-> OrDefault(doc.disks, default_disks),
                 minimum |-> OrDefault(doc.disks_minimum, default_disks_minimum)],
      load_average |->
          [one     |-> OrDefault(doc.one, default_load_average(cpus)),
           five    |-> OrDefault(doc.five, default_load_average(cpus)),
           fifteen |-> OrDefault(doc.fifteen, default_load_average(cpus))],
      process_checks |->
          [disable_mysql_check        |-> doc.disable_mysql_check,
           disable_mysql_memory_check |-> doc.disable_mysql_memory_check,
           disable_web_server_check   |-> doc.disable_web_server_check] ]

\* the loaded configuration (defined once `config` is set)
Cfg == config[1]

---------------------------------------------------------------------------
(* The checks.  Each operator gives the texts its check pushes onto        *)
(* `errors`, in order.                                                     *)

\* x <= y on f64
Le(x, y) == ~IsNaN(x) /\ ~IsNaN(y) /\ ~Lt(y, x)

\* the comparison with `>=` and `<=` in place of `>` and `<`
Compare_NonStrict(value, sign, threshold) ==
    IF sign = ">" THEN Le(threshold, value) ELSE Le(value, threshold)

\* `$value $sign $threshold` for f64 operands
Compare(value, sign, threshold) ==
    IF sign = ">" THEN Gt(value, threshold) ELSE Lt(value, threshold)

\* `check_value!` with f64 operands
check_value(name, value, sign, threshold) ==
    IF Compare(value, sign, threshold)
    THEN << <<Backtick, name, ": ", Fmt4(value), " ", sign, " ",
              FmtDisplay(threshold), Backtick>> >>
    ELSE <<>>

\* `check_value!` with u64 operands and `>` (the precision is ignored)
check_value_u64(name, value, threshold) ==
    IF value > threshold
    THEN << <<Backtick, name, ": ", ToString(value), " ", ">", " ",
              ToString(threshold), Backtick>> >>
    ELSE <<>>

\* the ceiling the one-minute load is compared with
LoadOneCeiling(cfg) == Times(cfg.load_average.one, 2)

\* the three load-average checks
LoadFindings(cfg, load) ==
    check_value("[siren] load 1", load.one, ">", LoadOneCeiling(cfg))
    \o check_value("load 5", load.five, ">", cfg.load_average.five)
    \o check_value("load 15", load.fifteen, ">", cfg.load_average.fifteen)

\* the loop over the disks without the test of the watched mounts
DiskWatched_Any(cfg, d) == TRUE

\* whether the loop over the disks looks at this disk
DiskWatched(cfg, d) == VecContains(cfg.disks.disks, d.mount)

\* `available_space() as f64 / total_space() as f64`
DiskPercFree(d) == F64(d.available, d.total)

RECURSIVE DiskFindings(_, _)
\* the loop over `s.disks()`
DiskFindings(cfg, disks) ==
    IF disks = <<>> THEN <<>>
    ELSE LET d == Head(disks)
         IN  (IF DiskWatched(cfg, d)
              THEN check_value(d.mount, DiskPercFree(d), "<", cfg.disks.minimum)
              ELSE <<>>)
             \o DiskFindings(cfg, Tail(disks))

\* `memory_perc_free` without the branch for zero available memory
MemoryPercFree_NoFallback(m) == F64(m.available, m.total)

\* `memory_perc_free`
MemoryPercFree(m) ==
    IF m.available = 0
    THEN F64(m.total - m.used, m.total)
    ELSE F64(m.available, m.total)

\* the memory check
MemoryFindings(cfg, m) ==
    check_value("memory", MemoryPercFree(m), "<", cfg.memory.minimum)

RECURSIVE AnyRunning_LastName(_, _)
\* the loop with `is_running = i != 0`: the last name decides
AnyRunning_LastName(procs, names) ==
    IF names = <<>> THEN FALSE
    ELSE IF Len(names) = 1 THEN Len(processes_by_name(procs, Head(names))) # 0
    ELSE AnyRunning_LastName(procs, Tail(names))

RECURSIVE AnyRunning(_, _)
\* the loop of `check_running!` over the names: the final `is_running`
AnyRunning(procs, names) ==
    IF names = <<>> THEN FALSE
    ELSE LET i == Len(processes_by_name(procs, Head(names)))
             rest == AnyRunning(procs, Tail(names))
         IN  IF i # 0 THEN TRUE ELSE rest

\* `check_running!`
check_running(disabled, names, procs) ==
    IF ~disabled
    THEN IF AnyRunning(procs, names)
         THEN <<>>
         ELSE << <<Backtick, JoinNames(names), " is not running", Backtick>> >>
    ELSE <<>>

WebServerNames == <<"apache2", "nginx">>

DatabaseNames == <<"mariadbd", "mysqld">>

RECURSIVE ProcessMemoryLoop(_, _, _)
\* one `for process in s.processes_by_name(name)` loop of the memory check
ProcessMemoryLoop(name, matched, total) ==
    IF matched = <<>> THEN <<>>
    ELSE check_value_u64(name, Head(matched).memory, ThreeQuarters(total))
         \o ProcessMemoryLoop(name, Tail(matched), total)

\* the process-memory check
ProcessMemoryFindings(cfg, procs, total) ==
    IF ~cfg.process_checks.disable_mysql_memory_check
    THEN ProcessMemoryLoop("mysqld", processes_by_name(procs, "mysqld"), total)
         \o ProcessMemoryLoop("mariadbd", processes_by_name(procs, "mariadbd"), total)
    ELSE <<>>

\* `b2_processes_count`
B2Count(procs) == Len(SelectSeq(procs, LAMBDA p : StrContains(p.name, "b2")))

\* the duplicate-process check
DuplicateFindings(procs) ==
    IF B2Count(procs) > 1
    THEN << <<Backtick, "b2 is running ", ToString(B2Count(procs)), " times", Backtick>> >>
    ELSE <<>>

BackupFile == "/tmp/backup.heartbeat"

\* 24 hours and 15 minutes, in seconds
HeartbeatWindow == (60 * 60 * 24) + (60 * 15)

\* `Duration::as_secs`: the whole seconds
as_secs(duration) == duration.secs

\* the heartbeat check
HeartbeatFindings(hb) ==
    IF hb.metadata = "ok"
    THEN IF hb.modified = "ok"
         THEN IF hb.elapsed = "ok"
              THEN IF as_secs(hb.duration) > HeartbeatWindow
                   THEN << <<Backtick, BackupFile, " has expired", Backtick>> >>
                   ELSE <<>>
              ELSE << <<Backtick, "Heartbeat timestamp not supported", Backtick>> >>
         ELSE << <<Backtick, "Heartbeat timestamp not supported", Backtick>> >>
    ELSE << <<Backtick, "Heartbeat error: ", hb.error, Backtick>> >>

\* `time_mins`
TimeMins == 10

\* the uptime check
UptimeFindings(uptime) ==
    IF uptime < TimeMins * 60
    THEN << <<"rebooted within the last ", ToString(TimeMins)>> >>
    ELSE <<>>

---------------------------------------------------------------------------
(* Messages.                                                               *)

\* how a `post(..).send()` of `send_telegram` can end
DeliveryResults == {"ok", "status_not_ok", "send_error"}

\* the texts put in front of `errors` instead of behind
PushAll_Front(errs, texts) == texts \o errs

\* `errors` after pushing texts onto it
PushAll(errs, texts) == errs \o texts

\* the text of the findings alert
AlertMessage(hostname, ip_addr, errs) ==
    <<"[!] ", Backtick, hostname, Backtick, " \\- ", Backtick, ip_addr, Backtick, NL>>
    \o Join(errs, NL)

\* the alert sent without the test of `errors.is_empty()`
AlertToSend_Always(hostname, ip_addr, errs) == <<AlertMessage(hostname, ip_addr, errs)>>

\* what the end of `main` hands to `send_telegram`: no message or one
AlertToSend(hostname, ip_addr, errs) ==
    IF errs # <<>> THEN <<AlertMessage(hostname, ip_addr, errs)>> ELSE <<>>

Fence == Backtick \o Backtick \o Backtick

\* how reading the crontab can end: its lines that contain "b2", or an error
CrontabReads ==
    { [ok |-> TRUE,  text |-> <<>>],
      [ok |-> TRUE,  text |-> <<"0 3 * * * b2 sync">>],
      [ok |-> TRUE,  text |-> <<"0 3 * * * b2 sync", NL, "0 4 * * * b2 prune">>],
      [ok |-> FALSE, text |-> <<"Permission denied (os error 13)">>] }

\* the text of the message sent after an update
UpdateMessage(hostname, ip_addr, version, cron) ==
    <<"[ok] ", Backtick, hostname, " (", ip_addr, ") updated to v", version, Backtick>>
    \o <<NL, Fence>> \o cron.text \o <<Fence>>

\* how the self-update can end: `build()?` fails, `update()?` fails, the
\* binary is up to date, or it was updated
UpdateOutcomes == {"build_error", "update_error", "up_to_date", "updated"}

---------------------------------------------------------------------------
(* The environment of a run: the configuration file and the host.          *)

SeqsUpTo(S, n) == UNION {[1..k -> S] : k \in 0..n}

\* a document with every optional key absent; self-update switched off
QuietDoc ==
    [ disable_self_update |-> TRUE,
      memory_minimum |-> None, disks |-> None, disks_minimum |-> None,
      one |-> None, five |-> None, fifteen |-> None,
      disable_mysql_check |-> FALSE, disable_mysql_memory_check |-> FALSE,
      disable_web_server_check |-> FALSE ]

\* units in which disk and memory sizes are sampled: 1 unit of 20 is 0.05
TotalUnits == 20

FreshHeartbeat ==
    [metadata |-> "ok", modified |-> "ok", elapsed |-> "ok",
     duration |-> [secs |-> 60, nanos |-> 0], error |-> ""]

\* a host on which no check finds anything
QuietHost ==
    [ cpus |-> NumCpus, hostname |-> "web1", ip_addr |-> "unknown",
      load |-> [one |-> FromInt(1), five |-> FromInt(1), fifteen |-> FromInt(1)],
      disks |-> << [mount |-> "/", available |-> 10, total |-> TotalUnits] >>,
      memory |-> [total |-> TotalUnits, available |-> 10, used |-> 10],
      procs |-> << [name |-> "nginx", memory |-> 1], [name |-> "mysqld", memory |-> 1] >>,
      heartbeat |-> FreshHeartbeat,
      uptime |-> 3600 ]

Booleans == {TRUE, FALSE}

\* load averages around the ceilings and around twice the ceilings
LoadValues ==
    {FromInt(n) : n \in {1, 2, 3, NumCpus, NumCpus + 1, 2 * NumCpus, 2 * NumCpus + 1}}

LoadCeilings == {None, Some(FromInt(2))}

EnvLoad ==
    { [file |-> [status |-> "ok",
                 doc |-> [QuietDoc EXCEPT !.one = c1, !.five = c5, !.fifteen = c15]],
       host |-> [QuietHost EXCEPT !.load = [one |-> l1, five |-> l5, fifteen |-> l15]]] :
      c1 \in LoadCeilings, c5 \in LoadCeilings, c15 \in {None},
      l1 \in LoadValues, l5 \in LoadValues, l15 \in {FromInt(1), FromInt(NumCpus + 1)} }

Mounts == {"/", "/data", "/tmp"}

DiskEntries ==
    { [mount |-> m, available |-> a, total |-> TotalUnits] : m \in Mounts, a \in 0..MaxAvail }
    \cup { [mount |-> m, available |-> 0, total |-> 0] : m \in Mounts }

\* the [disks] section: absent, two mounts with a minimum of 0.10, no mount
DisksSections ==
    { [disks |-> None, minimum |-> None],
      [disks |-> Some(<<"/", "/data">>), minimum |-> Some(F64(1, 10))],
      [disks |-> Some(<<>>), minimum |-> None] }

EnvDisk ==
    { [file |-> [status |-> "ok",
                 doc |-> [QuietDoc EXCEPT !.disks = sec.disks,
                                          !.disks_minimum = sec.minimum]],
       host |-> [QuietHost EXCEPT !.disks = ds]] :
      sec \in DisksSections,
      ds \in SeqsUpTo(DiskEntries, MaxDisks) }

\* memory readings; `used` never exceeds `total`
MemoryReadings ==
    { [total |-> t, available |-> a, used |-> t - f] :
      t \in {TotalUnits}, a \in 0..MaxAvail, f \in 0..MaxAvail }
    \cup { [total |-> 0, available |-> 0, used |-> 0] }

EnvMemory ==
    { [file |-> [status |-> "ok", doc |-> [QuietDoc EXCEPT !.memory_minimum = min]],
       host |-> [QuietHost EXCEPT !.memory = m]] :
      min \in {None, Some(F64(1, 10))}, m \in MemoryReadings }

\* resident sizes at and just above three quarters of the memory
ProcEntries ==
    { [name |-> n, memory |-> 1] : n \in {"apache2", "nginx", "mysqld_safe", "b2"} }
    \cup { [name |-> n, memory |-> m] :
           n \in {"mysqld", "mariadbd"},
           m \in {ThreeQuarters(TotalUnits), ThreeQuarters(TotalUnits) + 1} }

\* the [process_checks] section: nothing disabled, one check disabled, all
\* disabled
ProcessChecksSections ==
    { [web |-> FALSE, mysql |-> FALSE, mysql_memory |-> FALSE],
      [web |-> TRUE,  mysql |-> FALSE, mysql_memory |-> FALSE],
      [web |-> FALSE, mysql |-> TRUE,  mysql_memory |-> FALSE],
      [web |-> FALSE, mysql |-> FALSE, mysql_memory |-> TRUE],
      [web |-> TRUE,  mysql |-> TRUE,  mysql_memory |-> TRUE] }

EnvProc ==
    { [file |-> [status |-> "ok",
                 doc |-> [QuietDoc EXCEPT !.disable_web_server_check = sec.web,
                                          !.disable_mysql_check = sec.mysql,
                                          !.disable_mysql_memory_check = sec.mysql_memory]],
       host |-> [QuietHost EXCEPT !.procs = ps]] :
      sec \in ProcessChecksSections,
      ps \in SeqsUpTo(ProcEntries, MaxProcs) }

Heartbeats ==
    { [metadata |-> "err", modified |-> "ok", elapsed |-> "ok",
       duration |-> [secs |-> 0, nanos |-> 0],
       error |-> "No such file or directory (os error 2)"],
      [metadata |-> "err", modified |-> "ok", elapsed |-> "ok",
       duration |-> [secs |-> 0, nanos |-> 0],
       error |-> "Permission denied (os error 13)"],
      [metadata |-> "ok", modified |-> "err", elapsed |-> "ok",
       duration |-> [secs |-> 0, nanos |-> 0], error |-> ""],
      [metadata |-> "ok", modified |-> "ok", elapsed |-> "err",
       duration |-> [secs |-> 0, nanos |-> 0], error |-> ""] }
    \cup { [metadata |-> "ok", modified |-> "ok", elapsed |-> "ok",
            duration |-> [secs |-> sec, nanos |-> ns], error |-> ""] :
           sec \in {0, HeartbeatWindow - 1, HeartbeatWindow, HeartbeatWindow + 1,
                    25 * 60 * 60},
           ns \in {0, 500000000} }

Uptimes == {0, TimeMins * 60 - 1, TimeMins * 60, TimeMins * 60 + 1}

EnvHeartbeat ==
    { [file |-> [status |-> "ok", doc |-> QuietDoc],
       host |-> [QuietHost EXCEPT !.heartbeat = hb, !.uptime = up]] :
      hb \in Heartbeats, up \in Uptimes }

\* every check either quiet or finding something, with and without the
\* self-update
EnvMixed ==
    { [file |-> [status |-> "ok", doc |-> [QuietDoc EXCEPT !.disable_self_update = du]],
       host |-> [QuietHost EXCEPT !.load = l, !.disks = ds, !.memory = m, !.procs = ps,
                                  !.heartbeat = hb, !.uptime = up]] :
      du \in Booleans,
      l \in {QuietHost.load,
             [one |-> FromInt(2 * NumCpus + 1), five |-> FromInt(NumCpus + 1),
              fifteen |-> FromInt(NumCpus + 1)]},
      ds \in {QuietHost.disks,
              << [mount |-> "/", available |-> 0, total |-> TotalUnits] >>},
      m \in {QuietHost.memory, [total |-> TotalUnits, available |-> 0, used |-> TotalUnits]},
      ps \in {QuietHost.procs,
              << [name |-> "b2", memory |-> 1], [name |-> "b2", memory |-> 1] >>,
              << [name |-> "mysqld", memory |-> TotalUnits],
                 [name |-> "mariadbd", memory |-> TotalUnits] >>},
      hb \in {FreshHeartbeat,
              [FreshHeartbeat EXCEPT !.duration = [secs |-> 25 * 60 * 60, nanos |-> 0]]},
      up \in {QuietHost.uptime, 0} }

\* a configuration file that cannot be read, or that does not parse
EnvNoConfig ==
    { [file |-> [status |-> st, doc |-> QuietDoc], host |-> QuietHost] :
      st \in {"unreadable", "invalid"} }

Envs ==
    EnvLoad \cup EnvDisk \cup EnvMemory \cup EnvProc \cup EnvHeartbeat \cup EnvMixed
    \cup EnvNoConfig

---------------------------------------------------------------------------
(* The run.                                                                *)

Init ==
    /\ \E e \in Envs : config_file = e.file /\ host = e.host
    /\ pc = "load_config"
    /\ config = None
    /\ errors = <<>>
    /\ origin = <<>>
    /\ sent = <<>>
    /\ exit_code = "running"

\* `errors.push` by the check `kind`, once per text; `origin` records which
\* check pushed each element of `errors`
Push(kind, texts) ==
    /\ errors' = PushAll(errors, texts)
    /\ origin' = origin \o [i \in 1..Len(texts) |-> kind]

\* `send_telegram`: the message is posted; whatever the result, it is only
\* logged
send_telegram(message) ==
    \E r \in DeliveryResults : sent' = Append(sent, [text |-> message, result |-> r])

\* reading and parsing the configuration file
LoadConfig ==
    /\ pc = "load_config"
    /\ IF config_file.status = "ok"
       THEN /\ config' = Some(Deserialize(config_file.doc, host.cpus))
            /\ pc' = "self_update"
            /\ exit_code' = exit_code
       ELSE /\ config' = config
            /\ pc' = "exited"
            /\ exit_code' = "failure"
    /\ UNCHANGED <<config_file, host, errors, origin, sent>>

\* the self-update block
SelfUpdate ==
    /\ pc = "self_update"
    /\ IF ~Cfg.disable_self_update
       THEN \E outcome \in UpdateOutcomes :
              CASE outcome \in {"build_error", "update_error"} ->
                     /\ pc' = "exited"
                     /\ exit_code' = "failure"
                     /\ sent' = sent
                [] outcome = "up_to_date" ->
                     /\ pc' = "load"
                     /\ exit_code' = exit_code
                     /\ sent' = sent
                [] outcome = "updated" ->
                     /\ pc' = "load"
                     /\ exit_code' = exit_code
                     /\ \E cron \in CrontabReads :
                          send_telegram(UpdateMessage(host.hostname, host.ip_addr,
                                                      "1.2.3", cron))
       ELSE /\ pc' = "load"
            /\ exit_code' = exit_code
            /\ sent' = sent
    /\ UNCHANGED <<config_file, host, config, errors, origin>>

\* one check: it pushes its texts and hands over to the next check
Check(at, kind, texts, next) ==
    /\ pc = at
    /\ Push(kind, texts)
    /\ pc' = next
    /\ UNCHANGED <<config_file, host, config, sent, exit_code>>

CheckLoad == Check("load", "load", LoadFindings(Cfg, host.load), "disks")

CheckDisks == Check("disks", "disk", DiskFindings(Cfg, host.disks), "memory")

CheckMemory == Check("memory", "memory", MemoryFindings(Cfg, host.memory), "web_server")

CheckWebServer ==
    Check("web_server", "presence",
          check_running(Cfg.process_checks.disable_web_server_check, WebServerNames,
                        host.procs),
          "database")

CheckDatabase ==
    Check("database", "presence",
          check_running(Cfg.process_checks.disable_mysql_check, DatabaseNames, host.procs),
          "process_memory")

CheckProcessMemory ==
    Check("process_memory", "process_memory",
          ProcessMemoryFindings(Cfg, host.procs, host.memory.total), "duplicate")

CheckDuplicate == Check("duplicate", "duplicate", DuplicateFindings(host.procs), "heartbeat")

CheckHeartbeat ==
    Check("heartbeat", "heartbeat", HeartbeatFindings(host.heartbeat), "uptime")

CheckUptime == Check("uptime", "uptime", UptimeFindings(host.uptime), "alert")

\* the end of `main`: the alert, then `Ok(())`
SendAlert ==
    /\ pc = "alert"
    /\ LET msgs == AlertToSend(host.hostname, host.ip_addr, errors)
       IN  IF msgs # <<>> THEN send_telegram(msgs[1]) ELSE sent' = sent
    /\ pc' = "exited"
    /\ exit_code' = "success"
    /\ UNCHANGED <<config_file, host, config, errors, origin>>

Next ==
    \/ LoadConfig
    \/ SelfUpdate
    \/ CheckLoad
    \/ CheckDisks
    \/ CheckMemory
    \/ CheckWebServer
    \/ CheckDatabase
    \/ CheckProcessMemory
    \/ CheckDuplicate
    \/ CheckHeartbeat
    \/ CheckUptime
    \/ SendAlert

Spec == Init /\ [][Next]_vars

---------------------------------------------------------------------------
(* Vocabulary of the properties.                                           *)

PcOrder ==
    <<"load_config", "self_update", "load", "disks", "memory", "web_server", "database",
      "process_memory", "duplicate", "heartbeat", "uptime", "alert", "exited">>

PcRank(p) == CHOOSE i \in 1..Len(PcOrder) : PcOrder[i] = p

\* the step `at` of this run has been taken
Ran(at) == exit_code # "failure" /\ PcRank(pc) > PcRank(at)

\* the run has returned Ok(())
Finished == pc = "exited" /\ exit_code = "success"

\* the positions of `errors` pushed by the check `kind`
PushedBy(kind) == {i \in 1..Len(errors) : origin[i] = kind}

\* the number of findings of `kind` whose label (the text after the opening
\* quote) is `label`
CountLabelled(kind, label) ==
    Cardinality({i \in PushedBy(kind) : Len(errors[i]) >= 2 /\ errors[i][2] = label})

\* a exceeds b, and a is smaller than b, as exact quotients of naturals;
\* a quotient with denominator 0 is in neither relation
QuotientGt(an, ad, bn, bd) == ad > 0 /\ bd > 0 /\ an * bd > bn * ad

QuotientLt(an, ad, bn, bd) == ad > 0 /\ bd > 0 /\ an * bd < bn * ad

\* a text starts and ends with the code-span quote
Quoted(text) == Len(text) >= 2 /\ text[1] = Backtick /\ text[Len(text)] = Backtick

RECURSIVE SplitLines(_)
\* the lines of a text: the runs of tokens between its "\n" tokens
SplitLines(text) ==
    IF \A i \in 1..Len(text) : text[i] # NL THEN <<text>>
    ELSE LET k == CHOOSE i \in 1..Len(text) :
                      text[i] = NL /\ \A j \in 1..(i - 1) : text[j] # NL
         IN  <<SubSeq(text, 1, k - 1)>> \o SplitLines(SubSeq(text, k + 1, Len(text)))

\* the findings alerts among the messages sent
FindingsAlerts == SelectSeq(sent, LAMBDA m : m.text[1] = "[!] ")

HeaderLine ==
    <<"[!] ", Backtick, host.hostname, Backtick, " \\- ", Backtick, host.ip_addr, Backtick>>

KindOrder ==
    <<"load", "disk", "memory", "presence", "process_memory", "duplicate", "heartbeat",
      "uptime">>

KindRank(k) == CHOOSE i \in 1..Len(KindOrder) : KindOrder[i] = k

IsPrefix(a, b) == Len(a) <= Len(b) /\ SubSeq(b, 1, Len(a)) = a

---------------------------------------------------------------------------
(* C1.                                                                     *)

\* C1: once the load check has run, each of the three components (one, five,
\* fifteen) has a load Finding exactly when its sampled value is strictly
\* greater than its resolved ceiling.
C1_LoadFindingIffAboveCeiling ==
    Ran("load") =>
        /\ CountLabelled("load", "[siren] load 1") =
               (IF QuotientGt(host.load.one.num, host.load.one.den,
                              Cfg.load_average.one.num, Cfg.load_average.one.den)
                THEN 1 ELSE 0)
        /\ CountLabelled("load", "load 5") =
               (IF QuotientGt(host.load.five.num, host.load.five.den,
                              Cfg.load_average.five.num, Cfg.load_average.five.den)
                THEN 1 ELSE 0)
        /\ CountLabelled("load", "load 15") =
               (IF QuotientGt(host.load.fifteen.num, host.load.fifteen.den,
                              Cfg.load_average.fifteen.num, Cfg.load_average.fifteen.den)
                THEN 1 ELSE 0)

---------------------------------------------------------------------------
(* C2.                                                                     *)

\* C2: the run ends with a failure only if the configuration was not loaded;
\* once it is loaded no later step ends the run with a failure.
C2_FailureOnlyFromConfig == exit_code = "failure" => config = None

---------------------------------------------------------------------------
(* C3.                                                                     *)

WatchedMounts == {Cfg.disks.disks[i] : i \in 1..Len(Cfg.disks.disks)}

ReportedMounts == {host.disks[i].mount : i \in 1..Len(host.disks)}

\* the entries of the host's disk list for mount m whose free ratio is
\* strictly below the configured minimum
LowEntries(m) ==
    {i \in 1..Len(host.disks) :
        /\ host.disks[i].mount = m
        /\ QuotientLt(host.disks[i].available, host.disks[i].total,
                      Cfg.disks.minimum.num, Cfg.disks.minimum.den)}

\* C3 as stated: once the disk check has run, every watched mount that the
\* host reports with a free ratio strictly below the minimum has exactly one
\* Finding, and a watched mount with no such report has none.
C3_OneFindingPerLowMount ==
    Ran("disks") =>
        \A m \in WatchedMounts \cap ReportedMounts :
            CountLabelled("disk", m) = (IF LowEntries(m) # {} THEN 1 ELSE 0)

\* C3 as amended: once the disk check has run, a watched mount has exactly
\* one Finding per entry of the host's disk list that reports it with a free
\* ratio strictly below the minimum (one Finding when the host reports the
\* mount once); an entry whose ratio equals the minimum adds none.
C3_OneFindingPerLowEntry ==
    Ran("disks") =>
        \A m \in WatchedMounts \cap ReportedMounts :
            CountLabelled("disk", m) = Cardinality(LowEntries(m))

\* a watched mount reported once below the minimum and once exactly at it
C3_Witness ==
    /\ Ran("disks")
    /\ \E m \in WatchedMounts :
        /\ Cardinality(LowEntries(m)) = 1
        /\ CountLabelled("disk", m) = 1
        /\ \E i \in 1..Len(host.disks) :
            /\ host.disks[i].mount = m
            /\ host.disks[i].total > 0
            /\ host.disks[i].available * Cfg.disks.minimum.den =
                   Cfg.disks.minimum.num * host.disks[i].total

---------------------------------------------------------------------------
(* C4.                                                                     *)

\* C4: once the disk check has run, every disk Finding is for a mount that is
\* both in the configured watched mounts and in the host's disk list; an
\* unwatched mount and a watched mount the host does not report have no
\* Finding, and the run has not failed.
C4_DiskFindingOnlyWatchedAndReported ==
    Ran("disks") =>
        /\ \A i \in PushedBy("disk") :
               errors[i][2] \in WatchedMounts /\ errors[i][2] \in ReportedMounts
        /\ \A m \in Mounts \ (WatchedMounts \cap ReportedMounts) :
               CountLabelled("disk", m) = 0

\* "/" and "/data" watched; the host reports "/" and "/tmp", both with no
\* free space: the one Finding is for "/"
C4_Witness ==
    /\ Ran("disks")
    /\ WatchedMounts = {"/", "/data"}
    /\ ReportedMounts = {"/", "/tmp"}
    /\ \A i \in 1..Len(host.disks) : host.disks[i].available = 0 /\ host.disks[i].total > 0
    /\ Cardinality(PushedBy("disk")) = 1
    /\ CountLabelled("disk", "/") = 1

---------------------------------------------------------------------------
(* C5.                                                                     *)

\* C5: when the run has finished, no findings alert was sent if `errors` is
\* empty; otherwise exactly one was sent, and its lines are the header line
\* followed by the Findings, in the order of `errors`.
C5_OneAlertWithOneLinePerFinding ==
    Finished =>
        IF errors = <<>>
        THEN FindingsAlerts = <<>>
        ELSE /\ Len(FindingsAlerts) = 1
             /\ SplitLines(FindingsAlerts[1].text) = <<HeaderLine>> \o errors

\* a finished run with three Findings or more, sent as one alert of one line
\* more than there are Findings
C5_Witness ==
    /\ Finished
    /\ Len(errors) >= 3
    /\ Len(FindingsAlerts) = 1
    /\ Len(SplitLines(FindingsAlerts[1].text)) = Len(errors) + 1

---------------------------------------------------------------------------
(* C6.                                                                     *)

HeartbeatTexts == [i \in 1..Cardinality(PushedBy("heartbeat")) |->
                      errors[CHOOSE k \in PushedBy("heartbeat") :
                                 Cardinality({j \in PushedBy("heartbeat") : j < k}) = i - 1]]

ExpiredText == <<Backtick, BackupFile, " has expired", Backtick>>

UnsupportedText == <<Backtick, "Heartbeat timestamp not supported", Backtick>>

\* the file's age is more than 24h15m
OlderThanWindow(d) ==
    d.secs > HeartbeatWindow \/ (d.secs = HeartbeatWindow /\ d.nanos > 0)

\* C6: once the heartbeat check has run it has pushed at most one Finding: a
\* 'Heartbeat error' one when the file is missing or unreadable, the
\* 'timestamp not supported' one when the modification time is unavailable,
\* the 'has expired' one when the file was last modified more than 24h15m
\* ago, and none when it was modified within that window.
C6_HeartbeatFindingByCause ==
    Ran("heartbeat") =>
        LET hb == host.heartbeat
            texts == HeartbeatTexts
        IN  /\ Len(texts) <= 1
            /\ hb.metadata = "err" =>
                   /\ Len(texts) = 1
                   /\ SubSeq(texts[1], 1, 2) = <<Backtick, "Heartbeat error: ">>
            /\ (hb.metadata = "ok" /\ hb.modified = "err") => texts = <<UnsupportedText>>
            /\ (hb.metadata = "ok" /\ hb.modified = "ok" /\ hb.elapsed = "ok") =>
                   IF OlderThanWindow(hb.duration)
                   THEN texts = <<ExpiredText>>
                   ELSE texts = <<>>

---------------------------------------------------------------------------
(* C7.                                                                     *)

\* some running process matches one of the names
SomeProcessMatches(names) ==
    \E i \in 1..Len(host.procs) :
        \E k \in 1..Len(names) : StrContains(host.procs[i].name, names[k])

\* C7: once both presence checks have run, each category has exactly one
\* 'is not running' Finding when its check is enabled and no candidate name
\* matches a running process, and none otherwise.
C7_NotRunningIffEnabledAndAbsent ==
    Ran("database") =>
        /\ CountLabelled("presence", "apache2, nginx") =
               (IF ~Cfg.process_checks.disable_web_server_check
                   /\ ~SomeProcessMatches(<<"apache2", "nginx">>)
                THEN 1 ELSE 0)
        /\ CountLabelled("presence", "mariadbd, mysqld") =
               (IF ~Cfg.process_checks.disable_mysql_check
                   /\ ~SomeProcessMatches(<<"mariadbd", "mysqld">>)
                THEN 1 ELSE 0)
        /\ Cardinality(PushedBy("presence")) =
               CountLabelled("presence", "apache2, nginx")
               + CountLabelled("presence", "mariadbd, mysqld")

\* the web server runs under the second candidate name only, the database
\* is absent and its check is enabled
C7_Witness ==
    /\ Ran("database")
    /\ ~Cfg.process_checks.disable_web_server_check
    /\ ~Cfg.process_checks.disable_mysql_check
    /\ SomeProcessMatches(<<"nginx">>)
    /\ ~SomeProcessMatches(<<"apache2">>)
    /\ ~SomeProcessMatches(<<"mariadbd", "mysqld">>)
    /\ CountLabelled("presence", "apache2, nginx") = 0
    /\ CountLabelled("presence", "mariadbd, mysqld") = 1

---------------------------------------------------------------------------
(* C8.                                                                     *)

\* the free amount the claim divides by the total
FreeMemory == IF host.memory.available = 0
              THEN host.memory.total - host.memory.used
              ELSE host.memory.available

\* C8: once the memory check has run there is exactly one 'memory' Finding
\* when available/total, or (total - used)/total if the host reports zero
\* available memory, is strictly less than the configured minimum, and none
\* otherwise.
C8_MemoryFindingIffBelowMinimum ==
    Ran("memory") =>
        Cardinality(PushedBy("memory")) =
            (IF QuotientLt(FreeMemory, host.memory.total,
                           Cfg.memory.minimum.num, Cfg.memory.minimum.den)
             THEN 1 ELSE 0)

\* zero available memory reported while (total - used)/total is not below
\* the minimum: the fallback ratio decides, and there is no Finding
C8_Witness ==
    /\ Ran("memory")
    /\ host.memory.available = 0
    /\ host.memory.total > host.memory.used
    /\ ~QuotientLt(FreeMemory, host.memory.total,
                   Cfg.memory.minimum.num, Cfg.memory.minimum.den)
    /\ PushedBy("memory") = {}

---------------------------------------------------------------------------
(* C9.                                                                     *)

\* the Findings are in check evaluation order
InEvaluationOrder ==
    /\ Len(origin) = Len(errors)
    /\ \A i \in 1..Len(origin) : \A j \in 1..Len(origin) :
           i < j => KindRank(origin[i]) <= KindRank(origin[j])

\* the findings alert lists the Findings as `errors` holds them
AlertInEvaluationOrder ==
    (Finished /\ errors # <<>>) =>
        /\ Len(FindingsAlerts) = 1
        /\ Tail(SplitLines(FindingsAlerts[1].text)) = errors

\* C9: at every moment the Findings are in check evaluation order (load,
\* disk, memory, process presence, process memory, duplicate process,
\* heartbeat, uptime), the alert lists them in that order, and a step only
\* appends: no Finding is reordered or removed.
C9_FindingsInEvaluationOrder ==
    /\ [](InEvaluationOrder /\ AlertInEvaluationOrder)
    /\ [][IsPrefix(errors, errors') /\ IsPrefix(origin, origin')]_vars

\* a finished run whose alert holds Findings of five kinds or more
C9_Witness ==
    /\ Finished
    /\ Cardinality({origin[i] : i \in 1..Len(origin)}) >= 5
    /\ Len(FindingsAlerts) = 1

---------------------------------------------------------------------------
(* C10.                                                                    *)

\* C10: every Finding, whichever check pushed it, is wrapped in code-span
\* quotes.
C10_EveryFindingQuoted == \A i \in 1..Len(errors) : Quoted(errors[i])

=============================================================================
